---- MODULE Spec2Model ----
(***************************************************************************)
(* Model of the IAM policy analysis engine of psambareesh/labs:            *)
(*   classify_action, aggregate_to_matrix   (src/policy-parser.py)         *)
(*   parse_policies     (src/policy-parser.py, src/parse_policies.py)      *)
(*   compare_matrices                       (src/drift.py)                 *)
(* Python str values are TLA+ strings, lists are sequences, sets are sets, *)
(* a dict is an association list in insertion order (matrix) or a function *)
(* from its keys (day1, day2, a CSV row, a JSON object). A JSON value whose  *)
(* type the code tests with isinstance carries its type as a tag.          *)
(***************************************************************************)
EXTENDS Integers, Sequences, FiniteSets, TLC

VARIABLES
    action_details,  \* aggregate_to_matrix: the list of ActionRecords given to it
    pos,             \* aggregate_to_matrix: number of rows the first loop has folded
    matrix,          \* aggregate_to_matrix: the dict key -> entry, in insertion order
    results,         \* aggregate_to_matrix: the returned list of finalized rows
    day1,            \* compare_matrices: the first matrix, key -> row
    day2,            \* compare_matrices: the second matrix, key -> row
    all_keys,        \* compare_matrices: the keys the loop has still to visit
    drift,           \* compare_matrices: the list of drift records
    action_arg,      \* classify_action: its argument
    classified,      \* classify_action: its return value, <<>> before it returns
    variant,         \* parse_policies: the source file whose definition runs
    principal_records, \* parse_policies: its argument
    rec_pos,         \* parse_policies: number of principal records the loop has done
    error,           \* parse_policies: the exception that left it, "" if none
    pc               \* position of the running function

vars == <<action_details, pos, matrix, results, day1, day2, all_keys, drift,
          action_arg, classified, variant, principal_records, rec_pos, error,
          pc>>

aggregate_vars == <<action_details, pos, matrix, results>>
drift_vars == <<day1, day2, all_keys, drift>>
classify_vars == <<action_arg, classified>>
parse_vars == <<variant, principal_records, rec_pos, error>>

-----------------------------------------------------------------------------
(* Bounds of the model *)

MaxRecords == 2      \* longest list of ActionRecords given to aggregate_to_matrix
MaxPolicies == 1     \* most policies in the argument of parse_policies
MaxStatements == 1   \* longest Statement list of a policy document

-----------------------------------------------------------------------------
(* Python string primitives *)

\* The characters of the modelled strings in code point order.
CodePoints == "\n *,-0123456789:;ABCDEFGHIJKLMNOPQRSTUVWXYZabcdefghijklmnopqrstuvwxyz|"

CharAt(s, i) == SubSeq(s, i, i)

Chars == {CharAt(CodePoints, i) : i \in 1..Len(CodePoints)}

\* ord(c), up to the offset of the first character of CodePoints
CodePointOf ==
    [c \in Chars |-> CHOOSE i \in 1..Len(CodePoints) : CharAt(CodePoints, i) = c]

Ord(c) == CodePointOf[c]

\* a < b for Python str: lexicographic by code point, a proper prefix is smaller
RECURSIVE StrLess(_, _)
StrLess(a, b) ==
    IF b = "" THEN FALSE
    ELSE IF a = "" THEN TRUE
    ELSE IF Head(a) = Head(b) THEN StrLess(Tail(a), Tail(b))
    ELSE Ord(Head(a)) < Ord(Head(b))

\* sorted(S) for a set of str
RECURSIVE Sorted(_)
Sorted(S) ==
    IF S = {} THEN <<>>
    ELSE LET m == CHOOSE x \in S : \A y \in S : x = y \/ StrLess(x, y)
         IN  <<m>> \o Sorted(S \ {m})

\* sep.join(seq)
RECURSIVE Join(_, _)
Join(sep, seq) ==
    IF Len(seq) = 0 THEN ""
    ELSE IF Len(seq) = 1 THEN seq[1]
    ELSE seq[1] \o sep \o Join(sep, Tail(seq))

\* s.startswith(p)
StartsWith(s, p) == Len(s) >= Len(p) /\ SubSeq(s, 1, Len(p)) = p

\* set(list)
ToSet(seq) == {seq[i] : i \in 1..Len(seq)}

-----------------------------------------------------------------------------
(* classify_action *)

ServiceChars == {CharAt("abcdefghijklmnopqrstuvwxyz0123456789-", i) : i \in 1..37}

\* length of the longest prefix of s made of characters of [a-z0-9-]
RECURSIVE ServiceRun(_)
ServiceRun(s) ==
    IF s # "" /\ Head(s) \in ServiceChars THEN 1 + ServiceRun(Tail(s)) ELSE 0

\* what (.*) takes: everything up to the first newline
RECURSIVE DotStar(_)
DotStar(s) ==
    IF s = "" \/ Head(s) = "\n" THEN "" ELSE Head(s) \o DotStar(Tail(s))

\* re.match(r"([a-z0-9-]+):(.*)", action): <<>> for no match, else m.groups()
ReMatch(action) ==
    LET n == ServiceRun(action)
    IN  IF n >= 1 /\ Len(action) > n /\ CharAt(action, n + 1) = ":"
        THEN <<SubSeq(action, 1, n), DotStar(SubSeq(action, n + 2, Len(action)))>>
        ELSE <<>>

ReadPrefixes == {"Get", "Head", "Read"}
ListPrefixes == {"List", "Describe"}
WritePrefixes == {"Create", "Put", "Delete", "Update", "Start", "Stop", "Invoke"}
TaggingPrefixes == {"Tag", "Untag"}
PermissionsPrefixes ==
    {"PassRole", "Attach", "Detach", "CreatePolicy", "PutPolicy", "SetPolicy",
     "AddUserToGroup", "RemoveUserFromGroup"}

\* op.startswith(tuple of prefixes)
StartsWithAny(op, prefixes) == \E p \in prefixes : StartsWith(op, p)

\* LevelOf with the permissions verbs tested before the write prefixes
LevelOf_PermissionsFirst(op) ==
    IF op = "*" THEN "Admin"
    ELSE IF StartsWithAny(op, ReadPrefixes) THEN "Read"
    ELSE IF StartsWithAny(op, ListPrefixes) THEN "List"
    ELSE IF StartsWithAny(op, PermissionsPrefixes) THEN "PermissionsManagement"
    ELSE IF StartsWithAny(op, WritePrefixes) THEN "Write"
    ELSE IF StartsWithAny(op, TaggingPrefixes) THEN "Tagging"
    ELSE "Read"

\* the access level of an operation, lines 52-67
LevelOf(op) ==
    IF op = "*" THEN "Admin"
    ELSE IF StartsWithAny(op, ReadPrefixes) THEN "Read"
    ELSE IF StartsWithAny(op, ListPrefixes) THEN "List"
    ELSE IF StartsWithAny(op, WritePrefixes) THEN "Write"
    ELSE IF StartsWithAny(op, TaggingPrefixes) THEN "Tagging"
    ELSE IF StartsWithAny(op, PermissionsPrefixes) THEN "PermissionsManagement"
    ELSE "Read"

classify_action(action) ==
    IF action = "*" THEN <<"ALL_SERVICES", "Admin">>
    ELSE LET m == ReMatch(action)
         IN  IF m = <<>> THEN <<"UNKNOWN", "Unknown">>
             ELSE <<m[1], LevelOf(m[2])>>

-----------------------------------------------------------------------------
(* aggregate_to_matrix *)

\* The ActionRecords the model feeds to aggregate_to_matrix, as parse_policies
\* builds them: Service and AccessLevel are classify_action's result for Action,
\* PolicyName and Resources are those of the statement's policy. "Audit" stands
\* for an Effect that is neither Allow nor Deny.
Principals == {"alice"}
PrincipalTypes == {"User", "Role"}
Effects == {"Allow", "Deny", "Audit"}
RowActions == {"s3:GetObject", "s3:*", "*"}
\* the policies the statements come from: a name and the Resource of its statements
Policies ==
    {[PolicyName |-> "p-read", Resource |-> <<"arn:b">>],
     [PolicyName |-> "p-admin", Resource |-> <<"*">>],
     [PolicyName |-> "p-empty", Resource |-> <<>>]}

\* the dict parse_policies appends for one action of one statement
ActionRecord(principal, principal_type, pname, effect, act, resources) ==
    LET c == classify_action(act)
    IN  [Principal |-> principal, PrincipalType |-> principal_type,
         PolicyName |-> pname, Effect |-> effect, Action |-> act,
         Service |-> c[1], AccessLevel |-> c[2], Resources |-> resources]

ActionRecords ==
    {ActionRecord(p, t, pol.PolicyName, e, a, pol.Resource) :
        p \in Principals, t \in PrincipalTypes, pol \in Policies,
        e \in Effects, a \in RowActions}

\* KeyOf with the principal type left out of the key
KeyOf_NoPrincipalType(row) == <<row.Principal, row.Service>>

\* key = (row["Principal"], row["PrincipalType"], row["Service"])
KeyOf(row) == <<row.Principal, row.PrincipalType, row.Service>>

\* the keys of the dict, in insertion order
Keys(m) == [i \in 1..Len(m) |-> KeyOf(m[i])]

\* the entry created for a key that is not in the dict yet
NewEntry(row) ==
    [Principal |-> row.Principal, PrincipalType |-> row.PrincipalType,
     Service |-> row.Service, AllowedLevels |-> {}, DeniedLevels |-> {},
     Resources |-> <<>>, HasExplicitDeny |-> FALSE, Sources |-> {}]

\* if key not in matrix: matrix[key] = {...}
GetOrCreate(m, row) ==
    IF KeyOf(row) \in ToSet(Keys(m)) THEN m ELSE Append(m, NewEntry(row))

\* UpdateEntry where a Deny discards the level from the allowed set
UpdateEntry_DenyDiscards(entry, row) ==
    LET e1 == IF row.Effect = "Allow"
              THEN [entry EXCEPT !.AllowedLevels = @ \cup {row.AccessLevel}]
              ELSE IF row.Effect = "Deny"
              THEN [entry EXCEPT !.AllowedLevels = @ \ {row.AccessLevel},
                                 !.HasExplicitDeny = TRUE]
              ELSE entry
    IN  [e1 EXCEPT !.Resources = @ \o row.Resources,
                   !.Sources = @ \cup {row.PolicyName}]

\* UpdateEntry where HasExplicitDeny follows the effect of the latest record
UpdateEntry_FlagFollowsEffect(entry, row) ==
    LET e1 == IF row.Effect = "Allow"
              THEN [entry EXCEPT !.AllowedLevels = @ \cup {row.AccessLevel},
                                 !.HasExplicitDeny = FALSE]
              ELSE IF row.Effect = "Deny"
              THEN [entry EXCEPT !.DeniedLevels = @ \cup {row.AccessLevel},
                                 !.HasExplicitDeny = TRUE]
              ELSE entry
    IN  [e1 EXCEPT !.Resources = @ \o row.Resources,
                   !.Sources = @ \cup {row.PolicyName}]

\* UpdateEntry where only an Allow record leaves its resources and policy name
UpdateEntry_AllowOnlyProvenance(entry, row) ==
    IF row.Effect = "Allow"
    THEN [entry EXCEPT !.AllowedLevels = @ \cup {row.AccessLevel},
                       !.Resources = @ \o row.Resources,
                       !.Sources = @ \cup {row.PolicyName}]
    ELSE IF row.Effect = "Deny"
    THEN [entry EXCEPT !.DeniedLevels = @ \cup {row.AccessLevel},
                       !.HasExplicitDeny = TRUE]
    ELSE entry

\* the body of the first loop after the lookup: the updates of entry
UpdateEntry(entry, row) ==
    LET e1 == IF row.Effect = "Allow"
              THEN [entry EXCEPT !.AllowedLevels = @ \cup {row.AccessLevel}]
              ELSE IF row.Effect = "Deny"
              THEN [entry EXCEPT !.DeniedLevels = @ \cup {row.AccessLevel},
                                 !.HasExplicitDeny = TRUE]
              ELSE entry
    IN  [e1 EXCEPT !.Resources = @ \o row.Resources,
                   !.Sources = @ \cup {row.PolicyName}]

\* FoldRow where a record updates every entry of its principal, whatever the
\* service
FoldRow_PrincipalWide(m, row) ==
    LET m1 == GetOrCreate(m, row)
    IN  [i \in 1..Len(m1) |->
            IF /\ m1[i].Principal = row.Principal
               /\ m1[i].PrincipalType = row.PrincipalType
            THEN UpdateEntry(m1[i], row) ELSE m1[i]]

\* one iteration of the first loop, lines 117-138
FoldRow(m, row) ==
    LET m1 == GetOrCreate(m, row)
    IN  [i \in 1..Len(m1) |->
            IF KeyOf(m1[i]) = KeyOf(row) THEN UpdateEntry(m1[i], row) ELSE m1[i]]

\* ScopeOf counting the accumulated list instead of the set of its values
ScopeOf_ListLength(resources) ==
    IF "*" \in ToSet(resources) /\ Len(resources) = 1 THEN "AllResources"
    ELSE IF "*" \in ToSet(resources) THEN "Mixed"
    ELSE "Scoped"

\* the resource scope of the accumulated resources, lines 143-149
ScopeOf(resources) ==
    LET unique_resources == ToSet(resources)
    IN  IF "*" \in unique_resources /\ Cardinality(unique_resources) = 1
        THEN "AllResources"
        ELSE IF "*" \in unique_resources THEN "Mixed"
        ELSE "Scoped"

\* ",".join(sorted(effective_levels)) if effective_levels else "None"
RenderLevels(effective_levels) ==
    IF effective_levels # {} THEN Join(",", Sorted(effective_levels)) ELSE "None"

\* FinalizeEntry rendering the allowed levels without the subtraction
FinalizeEntry_AllowedOnly(entry) ==
    [Principal |-> entry.Principal, PrincipalType |-> entry.PrincipalType,
     Service |-> entry.Service,
     AccessLevels |-> IF entry.AllowedLevels # {}
                      THEN Join(",", Sorted(entry.AllowedLevels)) ELSE "None",
     ResourceScope |-> ScopeOf(entry.Resources),
     HasExplicitDeny |-> entry.HasExplicitDeny,
     Sources |-> Join(";", Sorted(entry.Sources))]

\* one iteration of the second loop: the finalized row of an entry
FinalizeEntry(entry) ==
    LET effective_levels == entry.AllowedLevels \ entry.DeniedLevels
    IN  [Principal |-> entry.Principal, PrincipalType |-> entry.PrincipalType,
         Service |-> entry.Service,
         AccessLevels |-> RenderLevels(effective_levels),
         ResourceScope |-> ScopeOf(entry.Resources),
         HasExplicitDeny |-> entry.HasExplicitDeny,
         Sources |-> Join(";", Sorted(entry.Sources))]

\* sequences over S of length at most n
RECURSIVE SeqsUpTo(_, _)
SeqsUpTo(S, n) ==
    IF n = 0 THEN {<<>>}
    ELSE LET shorter == SeqsUpTo(S, n - 1)
         IN  shorter \cup {Append(s, x) : s \in shorter, x \in S}

InitAggregate ==
    /\ action_details \in SeqsUpTo(ActionRecords, MaxRecords)
    /\ pos = 0
    /\ matrix = <<>>
    /\ results = <<>>
    /\ day1 = <<>> /\ day2 = <<>> /\ all_keys = {} /\ drift = <<>>
    /\ action_arg = "" /\ classified = <<>>
    /\ variant = "" /\ principal_records = <<>> /\ rec_pos = 0 /\ error = ""
    /\ pc = "fold"

\* for row in action_details: ...
Fold ==
    /\ pc = "fold"
    /\ pos < Len(action_details)
    /\ matrix' = FoldRow(matrix, action_details[pos + 1])
    /\ pos' = pos + 1
    /\ UNCHANGED <<action_details, results, pc, drift_vars, classify_vars, parse_vars>>

\* for _, entry in matrix.items(): results.append(...); return results
Finalize ==
    /\ pc = "fold"
    /\ pos = Len(action_details)
    /\ results' = [i \in 1..Len(matrix) |-> FinalizeEntry(matrix[i])]
    /\ pc' = "done"
    /\ UNCHANGED <<action_details, pos, matrix, drift_vars, classify_vars, parse_vars>>

\* aggregate_to_matrix as a function of its argument
RECURSIVE FoldAll(_, _)
FoldAll(m, rows) ==
    IF rows = <<>> THEN m ELSE FoldAll(FoldRow(m, Head(rows)), Tail(rows))

aggregate_to_matrix(rows) ==
    LET m == FoldAll(<<>>, rows)
    IN  [i \in 1..Len(m) |-> FinalizeEntry(m[i])]

Next == Fold \/ Finalize

Spec == InitAggregate /\ [][Next]_vars

-----------------------------------------------------------------------------
(* parse_policies *)

\* a JSON value together with the type isinstance sees
Str(s) == [type |-> "str", val |-> s]
List(q) == [type |-> "list", val |-> q]
Dict(d) == [type |-> "dict", val |-> d]
Number(n) == [type |-> "int", val |-> n]
None == [type |-> "NoneType"]
isinstance(x, t) == x.type = t

\* d.get(key, default)
Get(d, key, default) == IF key \in DOMAIN d THEN d[key] ELSE default

\* The statements the model puts into policy documents: Effect, Resource and
\* Condition present or absent, Action a bare string, a list, an empty list,
\* absent, and a list with an element that is not a string.
SomeCondition == [StringEquals |-> "x"]
Statements ==
    {[Action |-> Str("s3:GetObject")],
     [Effect |-> "Deny",
      Action |-> List(<<Str("s3:*"), Str("not-an-action")>>),
      Resource |-> Str("arn:b"), Condition |-> SomeCondition],
     [Effect |-> "Allow", Action |-> List(<<>>),
      Resource |-> List(<<"arn:b", "*">>)],
     [Effect |-> "Deny", Resource |-> Str("*")],
     [Action |-> List(<<Str("*"), Number(7)>>), Condition |-> SomeCondition],
     [Action |-> List(<<Str("ec2:DescribeInstances"), Str("s3:GetObject")>>),
      Resource |-> List(<<"arn:b", "arn:c">>)]}

\* the values of "PolicyDocument": {}, a single statement object, a statement list
PolicyDocuments ==
    {<<>>}
    \cup {[Statement |-> Dict(s)] : s \in Statements}
    \cup {[Statement |-> List(q)] : q \in SeqsUpTo(Statements, MaxStatements)}

\* the part of a record that holds the document: no key at all, or the key
DocParts == {<<>>} \cup {[PolicyDocument |-> d] : d \in PolicyDocuments}

\* the envelope of a record: a valid one, one whose type is outside
\* User/Group/Role, one without the principal identity
NestedEnvelopes ==
    {[Principal |-> "alice", PrincipalType |-> "User"],
     [Principal |-> "alice", PrincipalType |-> "Robot"],
     [PrincipalType |-> "User"]}
FlatEnvelopes ==
    {[PrincipalName |-> "alice", PrincipalType |-> "User"],
     [PrincipalName |-> "alice", PrincipalType |-> "Robot"],
     [PrincipalType |-> "User"]}

\* the records src/parse_policies.py expects: one per attached policy
FlatRecords ==
    {e @@ [PolicyName |-> "p-read", PolicyType |-> "Inline",
           PolicyArn |-> "arn:p"] @@ d :
        e \in FlatEnvelopes, d \in DocParts}

\* the records src/policy-parser.py expects: one per principal, with at most n
\* policies under "Policies"
NestedPolicies ==
    {[PolicyName |-> "p-read", PolicyType |-> "Inline"] @@ d : d \in DocParts}
NestedRecords(n) ==
    {e @@ p : e \in NestedEnvelopes,
              p \in {<<>>} \cup {[Policies |-> q] : q \in SeqsUpTo(NestedPolicies, n)}}

FlatInputs == SeqsUpTo(FlatRecords, MaxPolicies)
NestedInputs ==
    {<<>>}
    \cup {<<r>> : r \in NestedRecords(MaxPolicies)}
    \cup {<<r1, r2>> : r1, r2 \in NestedRecords(MaxPolicies - 1)}

\* expand_actions returning nothing for a bare string
expand_actions_ListOnly(action_field) ==
    IF isinstance(action_field, "list") THEN action_field.val ELSE <<>>

\* expand_actions, lines 35-40
expand_actions(action_field) ==
    IF isinstance(action_field, "str") THEN <<action_field>>
    ELSE IF isinstance(action_field, "list") THEN action_field.val
    ELSE <<>>

\* classify_action(act) raises TypeError: act == "*" is false for a value that
\* is not a str and re.match accepts only str
ClassifyRaises(act) == ~isinstance(act, "str")

\* StatementResources with the empty list as the default
StatementResources_EmptyDefault(stmt) ==
    LET resources == Get(stmt, "Resource", List(<<>>))
    IN  IF isinstance(resources, "str") THEN <<resources.val>> ELSE resources.val

\* resources = stmt.get("Resource", ["*"]); if isinstance(resources, str): ...
StatementResources(stmt) ==
    LET resources == Get(stmt, "Resource", List(<<"*">>))
    IN  IF isinstance(resources, "str") THEN <<resources.val>> ELSE resources.val

\* the loop over the actions of one statement: the records appended, up to the
\* first action classify_action raises on
StatementRecords(head, stmt) ==
    LET effect == Get(stmt, "Effect", "Allow")
        actions == expand_actions(Get(stmt, "Action", List(<<>>)))
        resources == StatementResources(stmt)
        raising == {i \in 1..Len(actions) : ClassifyRaises(actions[i])}
        n == IF raising = {} THEN Len(actions)
             ELSE (CHOOSE i \in raising : \A j \in raising : i <= j) - 1
    IN  [rows |->
            [i \in 1..n |->
                ActionRecord(head.Principal, head.PrincipalType, head.PolicyName,
                             effect, actions[i].val, resources)
                    @@ [PolicyType |-> head.PolicyType,
                        Condition |-> Get(stmt, "Condition", <<>>)]
                    @@ head.Extra],
         error |-> IF raising = {} THEN "" ELSE "TypeError"]

\* for stmt in stmts: ..., stopping at the statement that raises
RECURSIVE StatementsRecords(_, _)
StatementsRecords(head, stmts) ==
    IF stmts = <<>> THEN [rows |-> <<>>, error |-> ""]
    ELSE LET first == StatementRecords(head, Head(stmts))
         IN  IF first.error # "" THEN first
             ELSE LET rest == StatementsRecords(head, Tail(stmts))
                  IN  [rows |-> first.rows \o rest.rows, error |-> rest.error]

\* stmts = policy_doc.get("Statement", []); if isinstance(stmts, dict): stmts = [stmts]
StatementList(policy_doc) ==
    LET stmts == Get(policy_doc, "Statement", List(<<>>))
    IN  IF isinstance(stmts, "dict") THEN <<stmts.val>> ELSE stmts.val

\* for pol in policies: ..., src/policy-parser.py lines 82-110
RECURSIVE PoliciesRecords(_, _, _)
PoliciesRecords(principal, principal_type, policies) ==
    IF policies = <<>> THEN [rows |-> <<>>, error |-> ""]
    ELSE LET pol == Head(policies)
             head == [Principal |-> principal, PrincipalType |-> principal_type,
                      PolicyName |-> Get(pol, "PolicyName", None),
                      PolicyType |-> Get(pol, "PolicyType", None),
                      Extra |-> <<>>]
             first == StatementsRecords(head,
                          StatementList(Get(pol, "PolicyDocument", <<>>)))
         IN  IF first.error # "" THEN first
             ELSE LET rest == PoliciesRecords(principal, principal_type,
                                              Tail(policies))
                  IN  [rows |-> first.rows \o rest.rows, error |-> rest.error]

\* one iteration of the loop of src/policy-parser.py, lines 77-110
ParseNestedRecord(rec) ==
    IF "Principal" \notin DOMAIN rec \/ "PrincipalType" \notin DOMAIN rec
    THEN [rows |-> <<>>, error |-> "KeyError"]
    ELSE PoliciesRecords(rec.Principal, rec.PrincipalType,
                         Get(rec, "Policies", <<>>))

\* one iteration of the loop of src/parse_policies.py, lines 9-42
ParseFlatRecord(rec) ==
    LET head == [Principal |-> Get(rec, "PrincipalName", "UNKNOWN"),
                 PrincipalType |-> Get(rec, "PrincipalType", "UNKNOWN"),
                 PolicyName |-> Get(rec, "PolicyName", None),
                 PolicyType |-> Get(rec, "PolicyType", None),
                 Extra |-> [PolicyArn |-> Get(rec, "PolicyArn", None)]]
    IN  StatementsRecords(head, StatementList(Get(rec, "PolicyDocument", <<>>)))

ParseRecord(v, rec) ==
    IF v = "policy-parser.py" THEN ParseNestedRecord(rec) ELSE ParseFlatRecord(rec)

\* the state after action_details = []
InitParse ==
    /\ \/ variant = "policy-parser.py" /\ principal_records \in NestedInputs
       \/ variant = "parse_policies.py" /\ principal_records \in FlatInputs
    /\ rec_pos = 0
    /\ error = ""
    /\ action_details = <<>>
    /\ pos = 0 /\ matrix = <<>> /\ results = <<>>
    /\ day1 = <<>> /\ day2 = <<>> /\ all_keys = {} /\ drift = <<>>
    /\ action_arg = "" /\ classified = <<>>
    /\ pc = "parse"

\* for rec in principal_records: ...; an exception ends the call
ParseStep ==
    /\ pc = "parse"
    /\ rec_pos < Len(principal_records)
    /\ LET out == ParseRecord(variant, principal_records[rec_pos + 1])
       IN  /\ action_details' = action_details \o out.rows
           /\ error' = out.error
           /\ pc' = IF out.error = "" THEN "parse" ELSE "raised"
    /\ rec_pos' = rec_pos + 1
    /\ UNCHANGED <<variant, principal_records, pos, matrix, results,
                   drift_vars, classify_vars>>

\* return action_details
ParseReturn ==
    /\ pc = "parse"
    /\ rec_pos = Len(principal_records)
    /\ pc' = "parsed"
    /\ UNCHANGED <<aggregate_vars, drift_vars, classify_vars, parse_vars>>

\* lambda_handler: if not details: return ...; matrix = aggregate_to_matrix(details)
CallAggregate ==
    /\ pc = "parsed"
    /\ action_details # <<>>
    /\ pc' = "fold"
    /\ UNCHANGED <<aggregate_vars, drift_vars, classify_vars, parse_vars>>

NextParse == ParseStep \/ ParseReturn \/ CallAggregate \/ Fold \/ Finalize

SpecParse == InitParse /\ [][NextParse]_vars

-----------------------------------------------------------------------------
(* compare_matrices *)

\* The matrices the model gives to compare_matrices: a row is the dict of a CSV
\* line of the matrix file, or the empty dict.
DriftKeys == {<<"bob", "User", "ec2">>, <<"bob", "User", "s3">>}
RowLevels == {"None", "Read"}
RowScopes == {"AllResources", "Scoped"}
RowSources == {"p-read", "p-admin;p-read"}
EmptyRow == <<>>

MatrixRow(k, levels, scope, deny, sources) ==
    [Principal |-> k[1], PrincipalType |-> k[2], Service |-> k[3],
     AccessLevels |-> levels, ResourceScope |-> scope,
     HasExplicitDeny |-> deny, Sources |-> sources]

RowsOfKey(k) ==
    {MatrixRow(k, l, sc, d, so) :
        l \in RowLevels, sc \in RowScopes, d \in BOOLEAN, so \in RowSources}
    \cup {EmptyRow}

Matrices ==
    UNION {{m \in [D -> UNION {RowsOfKey(k) : k \in D}] :
               \A k \in D : m[k] \in RowsOfKey(k)} : D \in SUBSET DriftKeys}

\* d.get(k): <<>> for None, else the value in a one-element tuple
DictGet(d, k) == IF k \in DOMAIN d THEN <<d[k]>> ELSE <<>>

\* the truth value of what d.get(k) returned: None and the empty dict are false
Truthy(got) == got # <<>> /\ DOMAIN got[1] # {}

\* f"{value}" of a bool
PyStr(b) == IF b THEN "True" ELSE "False"

\* the record of the first branch, lines 30-37
RemovedRecord(k, row1) ==
    [Principal |-> k[1], PrincipalType |-> k[2], Service |-> k[3],
     ChangeType |-> "Removed", Day1 |-> row1.AccessLevels, Day2 |-> "None"]

\* AddedRecord with the change type of the branch above it
AddedRecord_LabelledRemoved(k, row2) ==
    [Principal |-> k[1], PrincipalType |-> k[2], Service |-> k[3],
     ChangeType |-> "Removed", Day1 |-> "None", Day2 |-> row2.AccessLevels]

\* the record of the second branch, lines 39-46
AddedRecord(k, row2) ==
    [Principal |-> k[1], PrincipalType |-> k[2], Service |-> k[3],
     ChangeType |-> "Added", Day1 |-> "None", Day2 |-> row2.AccessLevels]

\* FieldsDiffer without the comparison of HasExplicitDeny
FieldsDiffer_NoDenyCheck(row1, row2) ==
    \/ row1.AccessLevels # row2.AccessLevels
    \/ row1.ResourceScope # row2.ResourceScope

\* FieldsDiffer comparing the levels of one row with the scope of the other
FieldsDiffer_WrongField(row1, row2) ==
    \/ row1.AccessLevels # row2.ResourceScope
    \/ row1.ResourceScope # row2.ResourceScope
    \/ row1.HasExplicitDeny # row2.HasExplicitDeny

\* FieldsDiffer comparing the two rows as wholes
FieldsDiffer_WholeRow(row1, row2) == row1 # row2

\* the condition of lines 49-51
FieldsDiffer(row1, row2) ==
    \/ row1.AccessLevels # row2.AccessLevels
    \/ row1.ResourceScope # row2.ResourceScope
    \/ row1.HasExplicitDeny # row2.HasExplicitDeny

\* PipeJoined without the HasExplicitDeny part
PipeJoined_NoDenyPart(row) == row.AccessLevels \o " | " \o row.ResourceScope

\* f"{row['AccessLevels']} | {row['ResourceScope']} | {row['HasExplicitDeny']}"
PipeJoined(row) ==
    row.AccessLevels \o " | " \o row.ResourceScope \o " | " \o PyStr(row.HasExplicitDeny)

\* the record of the third branch, lines 52-59
ModifiedRecord(k, row1, row2) ==
    [Principal |-> k[1], PrincipalType |-> k[2], Service |-> k[3],
     ChangeType |-> "Modified", Day1 |-> PipeJoined(row1), Day2 |-> PipeJoined(row2)]

\* the body of the loop for key k: the records it appends to drift
CompareKey(d1, d2, k) ==
    LET row1 == DictGet(d1, k)
        row2 == DictGet(d2, k)
    IN  IF Truthy(row1) /\ ~Truthy(row2) THEN <<RemovedRecord(k, row1[1])>>
        ELSE IF ~Truthy(row1) /\ Truthy(row2) THEN <<AddedRecord(k, row2[1])>>
        ELSE IF Truthy(row1) /\ Truthy(row2)
        THEN IF FieldsDiffer(row1[1], row2[1])
             THEN <<ModifiedRecord(k, row1[1], row2[1])>>
             ELSE <<>>
        ELSE <<>>

\* the set of records compare_matrices(d1, d2) returns
compare_matrices(d1, d2) ==
    UNION {ToSet(CompareKey(d1, d2, k)) : k \in DOMAIN d1 \cup DOMAIN d2}

\* the state after all_keys = set(day1.keys()) | set(day2.keys())
InitDrift ==
    /\ day1 \in Matrices
    /\ day2 \in Matrices
    /\ all_keys = DOMAIN day1 \cup DOMAIN day2
    /\ drift = <<>>
    /\ action_details = <<>> /\ pos = 0 /\ matrix = <<>> /\ results = <<>>
    /\ action_arg = "" /\ classified = <<>>
    /\ variant = "" /\ principal_records = <<>> /\ rec_pos = 0 /\ error = ""
    /\ pc = "compare"

\* for k in all_keys: ... (a set is visited in no particular order)
CompareStep ==
    /\ pc = "compare"
    /\ \E k \in all_keys :
          /\ drift' = drift \o CompareKey(day1, day2, k)
          /\ all_keys' = all_keys \ {k}
    /\ UNCHANGED <<day1, day2, pc, aggregate_vars, classify_vars, parse_vars>>

\* return drift
CompareReturn ==
    /\ pc = "compare"
    /\ all_keys = {}
    /\ pc' = "done"
    /\ UNCHANGED <<drift_vars, aggregate_vars, classify_vars, parse_vars>>

NextDrift == CompareStep \/ CompareReturn

SpecDrift == InitDrift /\ [][NextDrift]_vars

-----------------------------------------------------------------------------
(* classify_action as a step *)

\* The action strings the model gives to classify_action.
InputServices == {"s3", "iam", "ec2-x1"}
InputVerbs ==
    ReadPrefixes \cup ListPrefixes \cup WritePrefixes \cup TaggingPrefixes
        \cup PermissionsPrefixes
        \cup {"*", "", "Decrypt", "get", "Ge", "Creat", "PassRol", "Policy"}
InputSuffixes == {"", "Object", "*", "\nx"}
MalformedActions ==
    {"*", "**", "", "s3", "not-an-action", "S3:GetObject", ":GetObject",
     " s3:GetObject", "s3 :GetObject", "s3\n:GetObject", "*:GetObject"}

ClassifyInputs ==
    {s \o ":" \o v \o x : s \in InputServices, v \in InputVerbs, x \in InputSuffixes}
    \cup {"s3:" \o v \o ":" \o w : v, w \in {"Get", "Put", "*"}}
    \cup MalformedActions

InitClassify ==
    /\ action_arg \in ClassifyInputs
    /\ classified = <<>>
    /\ action_details = <<>> /\ pos = 0 /\ matrix = <<>> /\ results = <<>>
    /\ day1 = <<>> /\ day2 = <<>> /\ all_keys = {} /\ drift = <<>>
    /\ variant = "" /\ principal_records = <<>> /\ rec_pos = 0 /\ error = ""
    /\ pc = "classify"

\* svc, level = classify_action(act)
Classify ==
    /\ pc = "classify"
    /\ classified' = classify_action(action_arg)
    /\ pc' = "done"
    /\ UNCHANGED <<action_arg, aggregate_vars, drift_vars, parse_vars>>

NextClassify == Classify

SpecClassify == InitClassify /\ [][NextClassify]_vars

-----------------------------------------------------------------------------
(* Properties of aggregate_to_matrix, stated against its argument *)

\* the natural key of a record, an entry or a finalized row
Triple(r) == <<r.Principal, r.PrincipalType, r.Service>>

\* the first n records of the argument that carry key k
RecordsOf(k, n) ==
    {action_details[j] : j \in {j \in 1..n : Triple(action_details[j]) = k}}

LevelsOf(k, effect) ==
    {r.AccessLevel : r \in {r \in RecordsOf(k, Len(action_details)) : r.Effect = effect}}

ResourcesOf(k) ==
    UNION {ToSet(r.Resources) : r \in RecordsOf(k, Len(action_details))}

InputTriples(n) == {Triple(action_details[j]) : j \in 1..n}

\* s.split(sep) for a one-character separator
RECURSIVE Split(_, _)
Split(s, sep) ==
    LET at == {i \in 1..Len(s) : CharAt(s, i) = sep}
    IN  IF at = {} THEN <<s>>
        ELSE LET i == CHOOSE i \in at : \A j \in at : i <= j
             IN  <<SubSeq(s, 1, i - 1)>> \o Split(SubSeq(s, i + 1, Len(s)), sep)

\* the levels an AccessLevels string names
RenderedLevels(s) == IF s = "None" THEN {} ELSE ToSet(Split(s, ","))

\* C1: in every returned row the levels named by AccessLevels are the levels of
\* the key's Allow records minus the levels of its Deny records, a level that is
\* both allowed and denied is not named, and AccessLevels is "None" exactly
\* when that difference is empty.
C1_EffectiveLevels ==
    pc = "done" =>
        \A i \in 1..Len(results) :
            LET allow == LevelsOf(Triple(results[i]), "Allow")
                deny == LevelsOf(Triple(results[i]), "Deny")
                named == RenderedLevels(results[i].AccessLevels)
            IN  /\ named = allow \ deny
                /\ \A l \in allow \cap deny : l \notin named
                /\ (results[i].AccessLevels = "None") <=> (allow \ deny = {})

C1_Witness ==
    /\ pc = "done"
    /\ \E i \in 1..Len(results) :
          /\ LevelsOf(Triple(results[i]), "Allow") \cap
                 LevelsOf(Triple(results[i]), "Deny") # {}
          /\ results[i].AccessLevels = "None"

\* the argument reordered by a permutation of its indices
Reordered(p) == [i \in 1..Len(action_details) |-> action_details[p[i]]]

\* C2: every reordering of the argument gives the same set of returned rows
\* (AccessLevels, ResourceScope, HasExplicitDeny and Sources of every key).
C2_OrderIndependent ==
    pc = "done" =>
        \A p \in Permutations(1..Len(action_details)) :
            ToSet(aggregate_to_matrix(Reordered(p))) = ToSet(results)

C2_Witness ==
    /\ pc = "done"
    /\ Len(action_details) = 2
    /\ Triple(action_details[1]) = Triple(action_details[2])
    /\ action_details[1].PolicyName = "p-read"
    /\ action_details[2].PolicyName = "p-admin"
    /\ action_details[1].Effect = "Deny"
    /\ action_details[2].Effect = "Allow"
    /\ Len(results) = 1
    /\ results[1].Sources = "p-admin;p-read"

DenySeen(k, n) == \E r \in RecordsOf(k, n) : r.Effect = "Deny"

\* C3: while the records are folded an entry's HasExplicitDeny is true exactly
\* when a Deny record of its key has been folded, no step sets it back to
\* false, and the returned row carries it.
C3_HasExplicitDenyMonotonic ==
    /\ [](/\ \A i \in 1..Len(matrix) :
                matrix[i].HasExplicitDeny <=> DenySeen(Triple(matrix[i]), pos)
          /\ pc = "done" =>
                \A i \in 1..Len(results) :
                    results[i].HasExplicitDeny <=>
                        DenySeen(Triple(results[i]), Len(action_details)))
    /\ [][\A i \in 1..Len(matrix) :
              matrix[i].HasExplicitDeny =>
                  /\ i <= Len(matrix')
                  /\ Triple(matrix'[i]) = Triple(matrix[i])
                  /\ matrix'[i].HasExplicitDeny]_vars

C3_Witness ==
    /\ pos = 2
    /\ Triple(action_details[1]) = Triple(action_details[2])
    /\ action_details[1].Effect = "Deny"
    /\ action_details[2].Effect = "Allow"
    /\ Len(matrix) = 1
    /\ matrix[1].HasExplicitDeny

\* C4: the dict holds one entry per triple of the records folded so far, created
\* at the first record of the triple and never removed, and the returned list
\* holds exactly one row for each triple of the argument.
C4_OneEntryPerKey ==
    /\ [](/\ Cardinality({Triple(matrix[i]) : i \in 1..Len(matrix)}) = Len(matrix)
          /\ {Triple(matrix[i]) : i \in 1..Len(matrix)} = InputTriples(pos)
          /\ pc = "done" =>
                /\ Len(results) = Cardinality(InputTriples(Len(action_details)))
                /\ {Triple(results[i]) : i \in 1..Len(results)} =
                       InputTriples(Len(action_details)))
    /\ [][/\ Len(matrix') >= Len(matrix)
          /\ \A i \in 1..Len(matrix) : Triple(matrix'[i]) = Triple(matrix[i])]_vars

C4_Witness ==
    /\ pc = "done"
    /\ Len(results) = 2
    /\ results[1].Principal = results[2].Principal
    /\ results[1].Service = results[2].Service
    /\ results[1].PrincipalType # results[2].PrincipalType

\* C5: ResourceScope is AllResources iff the key's resources are exactly {"*"},
\* Mixed iff they hold "*" and another value, Scoped iff they do not hold "*".
C5_ResourceScope ==
    pc = "done" =>
        \A i \in 1..Len(results) :
            LET res == ResourcesOf(Triple(results[i]))
                scope == results[i].ResourceScope
            IN  /\ (scope = "AllResources") <=> (res = {"*"})
                /\ (scope = "Mixed") <=> ("*" \in res /\ res # {"*"})
                /\ (scope = "Scoped") <=> ("*" \notin res)

C5_Witness ==
    /\ pc = "done"
    /\ Len(results) = 1
    /\ results[1].ResourceScope = "AllResources"
    /\ matrix[1].Resources = <<"*", "*">>

-----------------------------------------------------------------------------
(* Properties of one fold step of aggregate_to_matrix *)

\* the entry of key k in the dict m, or the fields of a fresh entry
EntryOf(m, k) ==
    LET at == {i \in 1..Len(m) : Triple(m[i]) = k}
    IN  IF at = {}
        THEN [AllowedLevels |-> {}, DeniedLevels |-> {}, Resources |-> <<>>,
              HasExplicitDeny |-> FALSE, Sources |-> {}]
        ELSE m[CHOOSE i \in at : TRUE]

\* C15: folding a record appends its resources to its entry and adds its policy
\* name to the entry's sources whatever its Effect; a record whose Effect is
\* neither Allow nor Deny changes no level set and leaves HasExplicitDeny; in
\* the returned row Sources names the policies of all the key's records and
\* the "*" of a Deny record keeps ResourceScope from being Scoped.
C15_EveryEffectRecorded ==
    /\ [](pc = "done" =>
            \A i \in 1..Len(results) :
                LET recs == RecordsOf(Triple(results[i]), Len(action_details))
                IN  /\ ToSet(Split(results[i].Sources, ";")) =
                           {r.PolicyName : r \in recs}
                    /\ \A r \in recs :
                           (r.Effect = "Deny" /\ "*" \in ToSet(r.Resources))
                               => results[i].ResourceScope # "Scoped")
    /\ [][pos' = pos + 1 =>
            LET row == action_details[pos + 1]
                old == EntryOf(matrix, Triple(row))
                new == EntryOf(matrix', Triple(row))
            IN  /\ new.Resources = old.Resources \o row.Resources
                /\ new.Sources = old.Sources \cup {row.PolicyName}
                /\ row.Effect \notin {"Allow", "Deny"} =>
                       /\ new.AllowedLevels = old.AllowedLevels
                       /\ new.DeniedLevels = old.DeniedLevels
                       /\ new.HasExplicitDeny = old.HasExplicitDeny]_vars

C15_Witness ==
    /\ pc = "done"
    /\ Len(action_details) = 2
    /\ action_details[1].Effect = "Audit"
    /\ action_details[2].Effect = "Deny"
    /\ Len(matrix) = 1
    /\ matrix[1].Resources = <<"arn:b", "*">>
    /\ matrix[1].AllowedLevels = {}
    /\ results[1].Sources = "p-admin;p-read"
    /\ results[1].ResourceScope = "Mixed"

\* the levels an entry would render if the fold stopped here
EffectiveOf(entry) == entry.AllowedLevels \ entry.DeniedLevels

\* C16: folding a record leaves every entry of another key as it was and
\* creates at most the entry of its own key; a Deny record of service
\* ALL_SERVICES or of level Admin takes no level from the effective levels of
\* another entry and none but Admin from its own; a returned row names every
\* level its key's records allow and none of its key's records deny.
C16_OnlyOwnKey ==
    /\ [](pc = "done" =>
            \A i \in 1..Len(results) :
                LET k == Triple(results[i])
                IN  (LevelsOf(k, "Allow") \ LevelsOf(k, "Deny"))
                        \subseteq RenderedLevels(results[i].AccessLevels))
    /\ [][pos' = pos + 1 =>
            LET row == action_details[pos + 1]
                k == Triple(row)
                present == \E i \in 1..Len(matrix) : Triple(matrix[i]) = k
            IN  /\ Len(matrix') = Len(matrix) + (IF present THEN 0 ELSE 1)
                /\ \A i \in 1..Len(matrix) :
                       Triple(matrix[i]) # k => matrix'[i] = matrix[i]
                /\ (/\ row.Effect = "Deny"
                    /\ row.Service = "ALL_SERVICES" \/ row.AccessLevel = "Admin")
                       => \A i \in 1..Len(matrix) :
                              (EffectiveOf(matrix[i]) \ EffectiveOf(matrix'[i]))
                                  \subseteq (IF Triple(matrix[i]) = k
                                             THEN {"Admin"} ELSE {})]_vars

C16_Witness ==
    /\ pc = "done"
    /\ Len(action_details) = 2
    /\ action_details[1].Action = "s3:GetObject"
    /\ action_details[1].Effect = "Allow"
    /\ action_details[2].Action = "*"
    /\ action_details[2].Effect = "Deny"
    /\ action_details[1].PrincipalType = action_details[2].PrincipalType
    /\ Len(results) = 2
    /\ results[1].Service = "s3"
    /\ results[1].AccessLevels = "Read"
    /\ results[2].Service = "ALL_SERVICES"
    /\ results[2].HasExplicitDeny

-----------------------------------------------------------------------------
(* Properties of compare_matrices, stated against its arguments *)

\* the positions of the drift records of key k
RecordsFor(k) == {i \in 1..Len(drift) : Triple(drift[i]) = k}

\* a row that carries the three compared fields
HasFields(row) == {"AccessLevels", "ResourceScope", "HasExplicitDeny"} \subseteq DOMAIN row

BoolText(b) == CASE b = TRUE -> "True" [] b = FALSE -> "False"

\* "<AccessLevels> | <ResourceScope> | <HasExplicitDeny>"
TripleText(row) ==
    Join(" | ", <<row.AccessLevels, row.ResourceScope, BoolText(row.HasExplicitDeny)>>)

RowsDiffer(k) ==
    \/ day1[k].AccessLevels # day2[k].AccessLevels
    \/ day1[k].ResourceScope # day2[k].ResourceScope
    \/ day1[k].HasExplicitDeny # day2[k].HasExplicitDeny

\* C6: for a key whose rows are in both matrices a record is returned iff
\* AccessLevels, ResourceScope or HasExplicitDeny differ between the rows; it
\* is one Modified record whose Day1 and Day2 are the pipe-joined triples.
C6_ModifiedIffDiffers ==
    pc = "done" =>
        \A k \in DOMAIN day1 \cap DOMAIN day2 :
            (HasFields(day1[k]) /\ HasFields(day2[k])) =>
                /\ (RecordsFor(k) # {}) <=> RowsDiffer(k)
                /\ Cardinality(RecordsFor(k)) <= 1
                /\ \A i \in RecordsFor(k) :
                      /\ drift[i].ChangeType = "Modified"
                      /\ drift[i].Day1 = TripleText(day1[k])
                      /\ drift[i].Day2 = TripleText(day2[k])

C6_Witness ==
    /\ pc = "done"
    /\ \E k \in DOMAIN day1 \cap DOMAIN day2 :
          /\ HasFields(day1[k]) /\ HasFields(day2[k])
          /\ day1[k].AccessLevels = day2[k].AccessLevels
          /\ day1[k].ResourceScope = day2[k].ResourceScope
          /\ ~day1[k].HasExplicitDeny /\ day2[k].HasExplicitDeny
          /\ \E i \in RecordsFor(k) :
                /\ drift[i].ChangeType = "Modified"
                /\ drift[i].Day1 = "Read | Scoped | False"
                /\ drift[i].Day2 = "Read | Scoped | True"

\* C7: a key in day1 only gives exactly one Removed record (Day1 the row's
\* AccessLevels, Day2 "None"), a key in day2 only exactly one Added record
\* (Day1 "None", Day2 the row's AccessLevels), whatever row is stored under it.
C7_PresenceByMembership ==
    pc = "done" =>
        \A k \in DriftKeys :
            /\ (k \in DOMAIN day1 /\ k \notin DOMAIN day2) =>
                  /\ Cardinality(RecordsFor(k)) = 1
                  /\ \A i \in RecordsFor(k) :
                        /\ drift[i].ChangeType = "Removed"
                        /\ drift[i].Day1 = day1[k].AccessLevels
                        /\ drift[i].Day2 = "None"
            /\ (k \notin DOMAIN day1 /\ k \in DOMAIN day2) =>
                  /\ Cardinality(RecordsFor(k)) = 1
                  /\ \A i \in RecordsFor(k) :
                        /\ drift[i].ChangeType = "Added"
                        /\ drift[i].Day1 = "None"
                        /\ drift[i].Day2 = day2[k].AccessLevels

SwapType(t) ==
    CASE t = "Added" -> "Removed" [] t = "Removed" -> "Added" [] t = "Modified" -> "Modified"

\* record q is record r with the two days exchanged
Mirrors(q, r) ==
    /\ Triple(q) = Triple(r)
    /\ q.ChangeType = SwapType(r.ChangeType)
    /\ q.Day1 = r.Day2
    /\ q.Day2 = r.Day1

\* C8: comparing (day2, day1) reports the same keys as comparing (day1, day2),
\* with Added and Removed exchanged, the same Modified keys, and Day1 and Day2
\* exchanged in every record.
C8_SwapSymmetric ==
    pc = "done" =>
        LET fwd == ToSet(drift)
            bwd == compare_matrices(day2, day1)
        IN  /\ {Triple(r) : r \in fwd} = {Triple(q) : q \in bwd}
            /\ \A r \in fwd : \E q \in bwd : Mirrors(q, r)
            /\ \A q \in bwd : \E r \in fwd : Mirrors(q, r)

C8_Witness ==
    /\ pc = "done"
    /\ Len(drift) = 2
    /\ drift[1].ChangeType = "Added"
    /\ drift[2].ChangeType = "Modified"
    /\ \E q \in compare_matrices(day2, day1) :
          q.ChangeType = "Removed" /\ Triple(q) = Triple(drift[1])

\* C9: a matrix compared with itself gives no drift record.
C9_SelfCompareEmpty ==
    (pc = "done" /\ day1 = day2) => drift = <<>>

C9_Witness ==
    /\ pc = "done"
    /\ day1 = day2
    /\ DOMAIN day1 = DriftKeys
    /\ \A k \in DriftKeys : HasFields(day1[k])
    /\ drift = <<>>

\* C17: for a key whose two rows agree on AccessLevels, ResourceScope and
\* HasExplicitDeny no record is returned, also when the rows differ in Sources;
\* two matrices that differ in nothing but Sources give an empty result.
C17_SourcesIgnored ==
    pc = "done" =>
        /\ \A k \in DOMAIN day1 \cap DOMAIN day2 :
               (/\ HasFields(day1[k]) /\ HasFields(day2[k])
                /\ day1[k].Sources # day2[k].Sources
                /\ ~RowsDiffer(k)) => RecordsFor(k) = {}
        /\ (/\ DOMAIN day1 = DOMAIN day2
            /\ \A k \in DOMAIN day1 :
                   /\ HasFields(day1[k]) /\ HasFields(day2[k])
                   /\ ~RowsDiffer(k)) => drift = <<>>

C17_Witness ==
    /\ pc = "done"
    /\ DOMAIN day1 = DriftKeys
    /\ DOMAIN day2 = DriftKeys
    /\ \A k \in DriftKeys :
          /\ HasFields(day1[k]) /\ HasFields(day2[k])
          /\ ~RowsDiffer(k)
          /\ day1[k].Sources = "p-read"
          /\ day2[k].Sources = "p-admin;p-read"
    /\ drift = <<>>

\* every stored row is a row aggregate_to_matrix returns
AggregatedRows == \A d \in {day1, day2} : \A k \in DOMAIN d : HasFields(d[k])

\* C18 as stated: between two matrices of aggregated rows every returned
\* record has Day1 different from Day2.
C18_DaysAlwaysDiffer ==
    (pc = "done" /\ AggregatedRows) =>
        \A i \in 1..Len(drift) : drift[i].Day1 # drift[i].Day2

\* C18: between two matrices of aggregated rows a Modified record has Day1
\* different from Day2, and an Added or Removed record has Day1 equal to Day2
\* exactly when the AccessLevels of the row that is present is "None".
C18_DaysDifferUnlessNone ==
    (pc = "done" /\ AggregatedRows) =>
        \A i \in 1..Len(drift) :
            LET k == Triple(drift[i])
            IN  /\ drift[i].ChangeType = "Modified" => drift[i].Day1 # drift[i].Day2
                /\ drift[i].ChangeType = "Removed" =>
                       ((drift[i].Day1 = drift[i].Day2)
                            <=> (day1[k].AccessLevels = "None"))
                /\ drift[i].ChangeType = "Added" =>
                       ((drift[i].Day1 = drift[i].Day2)
                            <=> (day2[k].AccessLevels = "None"))

C18_Witness ==
    /\ pc = "done"
    /\ AggregatedRows
    /\ Len(drift) = 2
    /\ \E i, j \in 1..2 :
          /\ drift[i].ChangeType = "Removed"
          /\ drift[i].Day1 = "None" /\ drift[i].Day2 = "None"
          /\ drift[j].ChangeType = "Modified"
          /\ drift[j].Day1 = "Read | Scoped | False"
          /\ drift[j].Day2 = "Read | Scoped | True"

-----------------------------------------------------------------------------
(* Properties of classify_action, stated as an ordered rule list *)

Between(c, lo, hi) == Ord(lo) <= Ord(c) /\ Ord(c) <= Ord(hi)

LowerAlnumDash ==
    {c \in Chars : Between(c, "a", "z") \/ Between(c, "0", "9") \/ c = "-"}

\* the position of the first c in s, 0 when there is none
FirstIndex(s, c) ==
    LET at == {i \in 1..Len(s) : CharAt(s, i) = c}
    IN  IF at = {} THEN 0 ELSE CHOOSE i \in at : \A j \in at : i <= j

\* the shape <lowercase-alnum-or-dash>:<rest>
HasShape(a) ==
    /\ FirstIndex(a, ":") >= 2
    /\ \A i \in 1..(FirstIndex(a, ":") - 1) : CharAt(a, i) \in LowerAlnumDash

BeforeColon(a) == SubSeq(a, 1, FirstIndex(a, ":") - 1)
AfterColon(a) == SubSeq(a, FirstIndex(a, ":") + 1, Len(a))

\* the text up to the first newline character
FirstLine(s) ==
    IF FirstIndex(s, "\n") = 0 THEN s ELSE SubSeq(s, 1, FirstIndex(s, "\n") - 1)

HasPrefix(op, p) == \E n \in 0..Len(op) : SubSeq(op, 1, n) = p

PrefixRules ==
    <<[prefixes |-> {"Get", "Head", "Read"}, level |-> "Read"],
      [prefixes |-> {"List", "Describe"}, level |-> "List"],
      [prefixes |-> {"Create", "Put", "Delete", "Update", "Start", "Stop", "Invoke"},
       level |-> "Write"],
      [prefixes |-> {"Tag", "Untag"}, level |-> "Tagging"],
      [prefixes |-> {"PassRole", "Attach", "Detach", "SetPolicy", "AddUserToGroup",
                     "RemoveUserFromGroup"},
       level |-> "PermissionsManagement"]>>

\* the level of the first rule that matches the operation
RuleLevel(op) ==
    LET hits == {i \in 1..Len(PrefixRules) :
                    \E p \in PrefixRules[i].prefixes : HasPrefix(op, p)}
    IN  IF op = "*" THEN "Admin"
        ELSE IF hits = {} THEN "Read"
        ELSE PrefixRules[CHOOSE i \in hits : \A j \in hits : i <= j].level

\* the pair the rule list gives for action a when its operation is op
RuleResult(a, op) ==
    IF a = "*" THEN <<"ALL_SERVICES", "Admin">>
    ELSE IF ~HasShape(a) THEN <<"UNKNOWN", "Unknown">>
    ELSE <<BeforeColon(a), RuleLevel(op)>>

\* the consequences the claim names
ShadowingHolds(op) ==
    /\ (HasShape(action_arg) /\ (HasPrefix(op, "CreatePolicy") \/ HasPrefix(op, "PutPolicy")))
           => classified[2] = "Write"
    /\ action_arg = "iam:PassRole" => classified = <<"iam", "PermissionsManagement">>

\* C10 as stated: the rules in priority order, first match wins, with the
\* operation being the text after the first colon.
C10_RuleOrderWholeRest ==
    pc = "done" =>
        /\ classified = RuleResult(action_arg, AfterColon(action_arg))
        /\ ShadowingHolds(AfterColon(action_arg))

\* C10 amended: the rules in priority order, first match wins, with the
\* operation being the text after the first colon up to the first newline;
\* CreatePolicy and PutPolicy operations are Write, iam:PassRole is
\* PermissionsManagement, the service is the text before the first colon.
C10_RuleOrder ==
    pc = "done" =>
        /\ classified = RuleResult(action_arg, FirstLine(AfterColon(action_arg)))
        /\ ShadowingHolds(FirstLine(AfterColon(action_arg)))

C10_Witness ==
    /\ pc = "done"
    /\ action_arg = "iam:CreatePolicy"
    /\ classified = <<"iam", "Write">>

-----------------------------------------------------------------------------
(* Properties of parse_policies, stated against its argument *)

RECURSIVE Flatten(_)
Flatten(seqs) == IF seqs = <<>> THEN <<>> ELSE Head(seqs) \o Flatten(Tail(seqs))

\* the policies a principal record carries: the record itself in the flat
\* format, the elements of "Policies" in the nested one
PoliciesOf(rec) ==
    IF variant = "parse_policies.py" THEN <<rec>>
    ELSE IF "Policies" \in DOMAIN rec THEN rec.Policies ELSE <<>>

\* the statements of a policy, a single statement object counting as one
StatementsOf(pol) ==
    IF "PolicyDocument" \notin DOMAIN pol THEN <<>>
    ELSE IF "Statement" \notin DOMAIN pol.PolicyDocument THEN <<>>
    ELSE IF pol.PolicyDocument.Statement.type = "dict"
         THEN <<pol.PolicyDocument.Statement.val>>
         ELSE pol.PolicyDocument.Statement.val

\* the elements of a statement's Action, a bare string counting as one
ActionElements(stmt) ==
    IF "Action" \notin DOMAIN stmt THEN <<>>
    ELSE IF stmt.Action.type = "str" THEN <<stmt.Action>>
    ELSE stmt.Action.val

\* the statements of the first n principal records, in order
StatementsUpTo(n) ==
    Flatten([r \in 1..n |->
        LET pols == PoliciesOf(principal_records[r])
        IN  Flatten([p \in 1..Len(pols) |-> StatementsOf(pols[p])])])

\* the (statement, action) pairs of the whole argument, in statement order and
\* within a statement in action order
ExpectedPairs ==
    LET stmts == StatementsUpTo(Len(principal_records))
    IN  Flatten([i \in 1..Len(stmts) |->
            [a \in 1..Len(ActionElements(stmts[i])) |->
                <<stmts[i], ActionElements(stmts[i])[a]>>]])

Returned == pc \in {"parsed", "fold", "done"}

\* C11 as stated: classify_action raises on no element of an Action list, and
\* every record whose action has not the shape service:operation (and is not
\* "*") is classified UNKNOWN/Unknown.
C11_ClassifyNeverRaises ==
    /\ error # "TypeError"
    /\ \A i \in 1..Len(action_details) :
          (action_details[i].Action # "*" /\ ~HasShape(action_details[i].Action))
              => /\ action_details[i].Service = "UNKNOWN"
                 /\ action_details[i].AccessLevel = "Unknown"

C13_StatementDefaults ==
    Returned =>
      LET pairs == ExpectedPairs
      IN  \A i \in 1..Len(action_details) :
            LET stmt == pairs[i][1]
                row == action_details[i]
                entries == {j \in 1..Len(matrix) : Triple(matrix[j]) = Triple(row)}
            IN  /\ row.Effect = IF "Effect" \in DOMAIN stmt THEN stmt.Effect
                                ELSE "Allow"
                /\ row.Resources =
                       IF "Resource" \notin DOMAIN stmt THEN <<"*">>
                       ELSE IF stmt.Resource.type = "str" THEN <<stmt.Resource.val>>
                       ELSE stmt.Resource.val
                /\ row.Condition = IF "Condition" \in DOMAIN stmt
                                   THEN stmt.Condition ELSE <<>>
                /\ pc = "done" =>
                      \A j \in entries :
                          /\ "Effect" \notin DOMAIN stmt =>
                                row.AccessLevel \in matrix[j].AllowedLevels
                          /\ "Resource" \notin DOMAIN stmt =>
                                /\ "*" \in ToSet(matrix[j].Resources)
                                /\ results[j].ResourceScope # "Scoped"

C13_Witness ==
    /\ pc = "done"
    /\ Len(action_details) = 1
    /\ DOMAIN ExpectedPairs[1][1] = {"Action"}
    /\ action_details[1].Effect = "Allow"
    /\ action_details[1].Resources = <<"*">>
    /\ action_details[1].Condition = <<>>
    /\ matrix[1].AllowedLevels = {"Read"}
    /\ results[1].ResourceScope = "AllResources"

ValidPrincipalTypes == {"User", "Group", "Role"}

\* the record lacks the principal identity or its type is not a valid one
BadEnvelope(rec) ==
    \/ (IF variant = "parse_policies.py" THEN "PrincipalName" ELSE "Principal")
           \notin DOMAIN rec
    \/ "PrincipalType" \notin DOMAIN rec
    \/ rec.PrincipalType \notin ValidPrincipalTypes

\* C14 as stated: once the loop has taken a record without principal identity
\* or with a principal type outside User, Group, Role, parse_policies has
\* raised, and no record it emits carries a placeholder identity or such a
\* type.
C14_EnvelopeRejected ==
    /\ (\E i \in 1..rec_pos : BadEnvelope(principal_records[i])) => pc = "raised"
    /\ \A i \in 1..Len(action_details) :
          /\ action_details[i].Principal # "UNKNOWN"
          /\ action_details[i].PrincipalType \in ValidPrincipalTypes

====
